---- MODULE Spec2Model ----
(***************************************************************************)
(* A model of converter.py: the batch loop of main, the per-file           *)
(* orchestrator convert_file, the encoding detector, the markup table      *)
(* extractor and the delimited-text path.                                  *)
(*                                                                         *)
(* Text is modelled as a sequence of tokens.  In file names and messages a *)
(* token is a chunk of characters ("a", "Successfully") or one separator   *)
(* character (".", "/").  In markup a token is one whole tag, one          *)
(* whitespace character or one text character.  In delimited text a token  *)
(* is one character.                                                       *)
(***************************************************************************)
EXTENDS Integers, Sequences, FiniteSets, TLC

VARIABLES
    \* main / convert_file
    files,            \* os.listdir(source_folder), filtered by isfile
    output_format,    \* the format typed at the prompt
    pc,               \* position of main
    idx,              \* 1-based index of the next file of the for loop
    processed_count,
    error_count,
    out_lines,        \* the lines written by pbar.write, with the outcome kind
    disk,             \* output folder: path -> the input file it was written for
    last,             \* the most recent convert_file call
    \* simple_html_table_to_df
    html_doc,         \* the shape of the markup: how it is rendered, and its items
    html_content,     \* the markup, as tokens
    df_html,          \* the value returned
    hpc,
    \* text path of convert_file
    content,          \* the decoded text, one character per element
    delimiter,
    df_text,
    tpc,
    \* detect_encoding
    det_in,           \* what open/read and chardet.detect do on this call
    encoding,
    epc

bvars == <<files, output_format, pc, idx, processed_count, error_count,
           out_lines, disk, last>>
hvars == <<html_doc, html_content, df_html, hpc>>
tvars == <<content, delimiter, df_text, tpc>>
evars == <<det_in, encoding, epc>>
vars == <<bvars, hvars, tvars, evars>>

\* None as an encoding label; NaN is the missing value pandas fills in (no text
\* of the model spells it).
None == "None"
NaN == "NaN"

\* A value that is either None or a DataFrame, given by its rows.
NoneDf == [is_none |-> TRUE, rows |-> <<>>]
Df(rows) == [is_none |-> FALSE, rows |-> rows]

(***************************************************************************)
(* Bounds of the model.                                                    *)
(***************************************************************************)
MaxFiles == 2        \* files in the source folder
MaxDataRows == 1     \* rows of a table handed to the writer
MaxItems == 4        \* rows and table boundaries in a document
MaxCells == 2        \* cells in a row
MaxTextLen == 4      \* characters of a short delimited text

(***************************************************************************)
(* Generic helpers on token sequences.                                     *)
(***************************************************************************)
SeqsUpTo(S, n) == UNION {[1..k -> S] : k \in 0..n}

Max(S) == CHOOSE m \in S : \A x \in S : x <= m

Min2(a, b) == IF a < b THEN a ELSE b

RECURSIVE Flatten(_)
Flatten(ss) == IF ss = <<>> THEN <<>> ELSE Head(ss) \o Flatten(Tail(ss))

IsPrefixAt(s, i, pat) ==
    /\ i + Len(pat) - 1 <= Len(s)
    /\ \A k \in 1..Len(pat) : s[i + k - 1] = pat[k]

\* str.replace(old, new): every non-overlapping occurrence, left to right.
RECURSIVE ReplaceFrom(_, _, _, _)
ReplaceFrom(s, i, old, new) ==
    IF i > Len(s) THEN <<>>
    ELSE IF IsPrefixAt(s, i, old)
         THEN new \o ReplaceFrom(s, i + Len(old), old, new)
         ELSE <<s[i]>> \o ReplaceFrom(s, i + 1, old, new)

StrReplace(s, old, new) == ReplaceFrom(s, 1, old, new)

\* Position of the last occurrence of token t in s, 0 when there is none.
RFind(s, t) ==
    LET hits == {i \in 1..Len(s) : s[i] = t}
    IN  IF hits = {} THEN 0 ELSE Max(hits)

\* `t in s` for a chunk t.
Contains(s, t) == \E i \in 1..Len(s) : s[i] = t

(***************************************************************************)
(* detect_encoding.  Confidence is in hundredths: 0.7 is 70.               *)
(* chardet.detect reports encoding None only with confidence 0.0, which is *)
(* also its answer for an empty buffer.                                    *)
(***************************************************************************)
Threshold == 70

Encodings == {"ascii", "windows-1252", "utf-8"}

DetectInputs ==
    [io_ok : BOOLEAN, empty : BOOLEAN, enc : Encodings \cup {None},
     confidence : 0..100]

\* What open() and chardet.detect() can do on one call.
ValidDetect(d) ==
    /\ (d.enc = None) => (d.confidence = 0)
    /\ d.empty => (d.enc = None)

\* A threshold test that lets the boundary value through.
ConfidentInclusive(confidence) == confidence >= Threshold

\* result['confidence'] > 0.7
Confident(confidence) == confidence > Threshold

detect_encoding(d) ==
    IF ~d.io_ok THEN "utf-8"
    ELSE IF Confident(d.confidence) THEN d.enc ELSE "utf-8"

(***************************************************************************)
(* Paths and file names.                                                   *)
(***************************************************************************)
source_folder == <<"src">>

\* os.path.join of a folder and one component.
PathJoin(folder, name) == folder \o <<"/">> \o name

\* create_output_folder: the 'converted' subfolder of the source folder.
create_output_folder(folder) == PathJoin(folder, <<"converted">>)

\* os.path.basename: what follows the last separator.
Basename(path) == SubSeq(path, RFind(path, "/") + 1, Len(path))

\* os.path.splitext(name)[0] of a name without separators: the name up to its
\* last dot, unless only dots precede that dot.
SplitextRoot(name) ==
    LET dotIndex == RFind(name, ".")
    IN  IF dotIndex > 0 /\ \E k \in 1..(dotIndex - 1) : name[k] # "."
        THEN SubSeq(name, 1, dotIndex - 1)
        ELSE name

\* convert_file, lines 87-89: output_path.
OutputPath(file_path, output_folder, fmt) ==
    PathJoin(output_folder, SplitextRoot(Basename(file_path)) \o <<".", fmt>>)

\* convert_file, line 140: temp_xlsx.
TempPath(output_path) ==
    StrReplace(output_path, <<".", "xlsb">>, <<"_temp", ".", "xlsx">>)

\* The names a source folder may hold (a directory lists each name once).
FileNames ==
    { <<"a", ".", "csv">>,
      <<"a", ".", "txt">>,
      <<"Successfully", ".", "csv">>,
      <<".", "xlsb">> }

Listings ==
    {fs \in SeqsUpTo(FileNames, MaxFiles) :
        \A i, j \in 1..Len(fs) : i # j => fs[i] # fs[j]}

(***************************************************************************)
(* convert_file.  env says what the collaborators do on this call: where   *)
(* (if anywhere) one of them raises, what the classifier sees, how many    *)
(* rows the extractor yields.                                              *)
(***************************************************************************)
\* "xlsb" is a failure of the re-save before SaveAs has written the xlsb file
\* (EnsureDispatch, Open, SaveAs itself); "xlsb_close" is one after it (Close,
\* Quit).
Faults == {"none", "detect", "classify", "read", "parse", "to_excel", "xlsb",
           "xlsb_close", "remove"}

\* What detection does on a call: the read fails, or chardet answers.
DetectFor(fault) ==
    [io_ok |-> (fault # "detect"), empty |-> FALSE, enc |-> "windows-1252",
     confidence |-> 73]

Envs ==
    {[fault |-> f, has_tags |-> t, nrows |-> n, det |-> DetectFor(f)] :
        f \in Faults, t \in BOOLEAN, n \in 0..MaxDataRows}

ErrText == <<"err">>

\* output_format.upper(), on the formats of the model.
Upper(fmt) ==
    CASE fmt = "xlsx" -> "XLSX"
      [] fmt = "xlsb" -> "XLSB"
      [] fmt = "csv" -> "CSV"
      [] OTHER -> fmt

\* is_html_content: any failure of the read under the given encoding is
\* answered False; errors='replace' makes every label that open() accepts read.
is_html_content(env, enc) ==
    IF env.fault = "classify" THEN FALSE ELSE env.has_tags

Returned(kind, msg, d, temp) ==
    [raised |-> FALSE, kind |-> kind, msg |-> msg, disk |-> d, temp_created |-> temp]

Raised(err, d, temp) ==
    [raised |-> TRUE, kind |-> "Raised", msg |-> err, disk |-> d, temp_created |-> temp]

WriteFile(d, path, owner) == (path :> owner) @@ d

RemoveFile(d, path) == [q \in (DOMAIN d) \ {path} |-> d[q]]

\* convert_xlsx_to_xlsb: any failure is re-raised as a RuntimeError; saved says
\* whether SaveAs (line 158) had written the xlsb file by then.
convert_xlsx_to_xlsb(env) ==
    IF env.fault \in {"xlsb", "xlsb_close"}
    THEN [ok |-> FALSE, saved |-> (env.fault = "xlsb_close"),
          err |-> <<"XLSB conversion failed:">> \o ErrText]
    ELSE [ok |-> TRUE, saved |-> TRUE, err |-> <<>>]

\* Lines 136-145: the save and the success message.  A to_excel that raises
\* leaves no file behind.
SaveAndReport(filename, output_path, fmt, env, d) ==
    LET success == <<"Successfully", "converted", ToString(env.nrows), "rows",
                     "to", Upper(fmt)>>
    IN  IF fmt = "xlsx"
        THEN IF env.fault = "to_excel"
             THEN Raised(ErrText, d, FALSE)
             ELSE Returned("Success", success, WriteFile(d, output_path, filename), FALSE)
        ELSE LET temp_xlsx == TempPath(output_path)
                 xlsb == convert_xlsx_to_xlsb(env)
                 with_temp == WriteFile(d, temp_xlsx, filename)
                 with_both == WriteFile(with_temp, output_path, filename)
             IN  IF env.fault = "to_excel" THEN Raised(ErrText, d, FALSE)
                 ELSE IF ~xlsb.ok
                 THEN Raised(xlsb.err, IF xlsb.saved THEN with_both ELSE with_temp, TRUE)
                 ELSE IF env.fault = "remove" THEN Raised(ErrText, with_both, TRUE)
                 ELSE Returned("Success", success, RemoveFile(with_both, temp_xlsx), TRUE)

\* Lines 92-145: the body of the outer try.  The encoding goes to open(), which
\* takes any label detect_encoding returns, None included; a label it cannot
\* use is the "read" fault.
ConvertBody(filename, output_path, fmt, env, d) ==
    LET enc == detect_encoding(env.det)
        is_html == is_html_content(env, enc)
    IN  IF is_html
        THEN IF env.fault = "read" THEN Raised(ErrText, d, FALSE)
             ELSE IF env.nrows = 0
             THEN Returned("NoData", <<"No valid tables found in HTML:">> \o filename,
                           d, FALSE)
             ELSE SaveAndReport(filename, output_path, fmt, env, d)
        ELSE IF env.fault \in {"read", "parse"}
             THEN Returned("Failure",
                           <<"Text parsing failed for">> \o filename \o <<":">> \o ErrText,
                           d, FALSE)
             ELSE IF env.nrows = 0
             THEN Returned("NoData", <<"No data found in">> \o filename, d, FALSE)
             ELSE SaveAndReport(filename, output_path, fmt, env, d)

\* A boundary that lets the exception through.
OuterExceptMissing(r, filename) == r

\* Lines 147-148: the outer except turns an exception into a message.
OuterExcept(r, filename) ==
    IF r.raised
    THEN [r EXCEPT !.raised = FALSE, !.kind = "Failure",
                   !.msg = <<"Unexpected error processing">> \o filename
                           \o <<":">> \o r.msg]
    ELSE r

convert_file(file_path, output_folder, fmt, env, d) ==
    LET filename == Basename(file_path)
        output_path == OutputPath(file_path, output_folder, fmt)
    IN  OuterExcept(ConvertBody(filename, output_path, fmt, env, d), filename)

(***************************************************************************)
(* main.                                                                   *)
(***************************************************************************)
Formats == {"xlsx", "xlsb", "csv"}

NoCall == [called |-> FALSE]

\* Line 205: "Successfully" in result.
IsSuccessLine(result) == Contains(result, "Successfully")

\* A loop that stops at the first file that is not converted.
NextIndexBreak(i, r) == IF r.kind = "Success" THEN i + 1 ELSE Len(files) + 1

\* Line 198: the for loop moves to the next file whatever the outcome.
NextIndex(i, r) == i + 1

\* Lines 170-187: the prompts and their early returns.
ReadInputs ==
    /\ pc = "start"
    /\ \E valid_folder \in BOOLEAN, fmt \in Formats, windows \in BOOLEAN :
          /\ output_format' = IF valid_folder THEN fmt ELSE output_format
          /\ pc' = IF ~valid_folder THEN "exit"
                   ELSE IF fmt \notin {"xlsx", "xlsb"} THEN "exit"
                   ELSE IF fmt = "xlsb" /\ ~windows THEN "exit"
                   ELSE "loop"
    /\ UNCHANGED <<files, idx, processed_count, error_count, out_lines, disk, last>>
    /\ UNCHANGED <<hvars, tvars, evars>>

\* Lines 198-208: one iteration of the loop.
ProcessFile ==
    /\ pc = "loop"
    /\ idx <= Len(files)
    /\ \E env \in Envs :
          LET filename == files[idx]
              file_path == PathJoin(source_folder, filename)
              output_folder == create_output_folder(source_folder)
              r == convert_file(file_path, output_folder, output_format, env, disk)
          IN  /\ disk' = r.disk
              /\ last' = [called |-> TRUE, file |-> filename,
                          raised |-> r.raised, kind |-> r.kind,
                          temp_created |-> r.temp_created,
                          temp_path |-> TempPath(OutputPath(file_path, output_folder,
                                                            output_format))]
              /\ IF r.raised
                 THEN /\ pc' = "crashed"
                      /\ UNCHANGED <<idx, processed_count, error_count, out_lines>>
                 ELSE /\ pc' = pc
                      /\ out_lines' = Append(out_lines,
                                             [file |-> filename, kind |-> r.kind,
                                              result |-> r.msg])
                      /\ processed_count' = IF IsSuccessLine(r.msg)
                                            THEN processed_count + 1
                                            ELSE processed_count
                      /\ error_count' = IF IsSuccessLine(r.msg)
                                        THEN error_count
                                        ELSE error_count + 1
                      /\ idx' = NextIndex(idx, r)
    /\ UNCHANGED <<files, output_format>>
    /\ UNCHANGED <<hvars, tvars, evars>>

\* Lines 210-211: the loop is over, the counts are printed.
Finish ==
    /\ pc = "loop"
    /\ idx > Len(files)
    /\ pc' = "done"
    /\ UNCHANGED <<files, output_format, idx, processed_count, error_count,
                   out_lines, disk, last>>
    /\ UNCHANGED <<hvars, tvars, evars>>

(***************************************************************************)
(* The parts of the state a specification does not use stay at rest.       *)
(***************************************************************************)
BatchIdle ==
    /\ files = <<>>
    /\ output_format = ""
    /\ pc = "idle"
    /\ idx = 1
    /\ processed_count = 0
    /\ error_count = 0
    /\ out_lines = <<>>
    /\ disk = <<>>
    /\ last = NoCall

HtmlIdle ==
    /\ html_doc = [mode |-> "tables", items |-> <<>>]
    /\ html_content = <<>>
    /\ df_html = NoneDf
    /\ hpc = "idle"

TextIdle ==
    /\ content = <<>>
    /\ delimiter = ""
    /\ df_text = NoneDf
    /\ tpc = "idle"

EncIdle ==
    /\ det_in = [io_ok |-> TRUE, empty |-> TRUE, enc |-> None, confidence |-> 0]
    /\ encoding = ""
    /\ epc = "idle"

(***************************************************************************)
(* simple_html_table_to_df.  The markup is a sequence of tokens: a whole    *)
(* tag, one whitespace character, one text character or one character      *)
(* reference.  A cell of the result is a string.                           *)
(***************************************************************************)
TableOpen == {"<table>"}
TableClose == {"</table>"}
RowOpen == {"<tr>"}
RowClose == {"</tr>"}
CellOpen == {"<td>", "<th>"}
CellClose == {"</td>", "</th>"}
Tags == TableOpen \cup TableClose \cup RowOpen \cup RowClose \cup CellOpen
        \cup CellClose \cup {"<b>", "</b>"}
Whitespace == {" ", "\n", "\t"}

\* html.unescape, on the references of the model.
UnescapeToken(t) == IF t = "&amp;" THEN "&" ELSE t

Unescape(s) == [i \in 1..Len(s) |-> UnescapeToken(s[i])]

\* re.findall(r'<open.*?>(.*?)</close>', s, DOTALL | IGNORECASE): from the first
\* opening tag at or after i, the tokens up to the first closing tag after it;
\* the scan resumes after that closing tag.
RECURSIVE FindSpans(_, _, _, _)
FindSpans(s, i, Open, Close) ==
    LET opens == {o \in i..Len(s) : s[o] \in Open}
    IN  IF opens = {} THEN <<>>
        ELSE LET o == CHOOSE x \in opens : \A y \in opens : x <= y
                 closes == {c \in (o + 1)..Len(s) : s[c] \in Close}
             IN  IF closes = {} THEN <<>>
                 ELSE LET c == CHOOSE x \in closes : \A y \in closes : x <= y
                      IN  <<SubSeq(s, o + 1, c - 1)>> \o FindSpans(s, c + 1, Open, Close)

\* re.sub(r'<.*?>', '', cell)
StripTags(cell) == SelectSeq(cell, LAMBDA t : t \notin Tags)

\* re.sub(r'\s+', ' ', cell).strip(), the result joined into one string.
RECURSIVE CollapseFrom(_, _, _)
CollapseFrom(cell, i, pending) ==
    IF i > Len(cell) THEN ""
    ELSE IF cell[i] \in Whitespace THEN CollapseFrom(cell, i + 1, TRUE)
    ELSE (IF pending THEN " " ELSE "") \o cell[i] \o CollapseFrom(cell, i + 1, FALSE)

\* Leading whitespace is stripped: the first text is never preceded by a space.
RECURSIVE SkipWhitespace(_, _)
SkipWhitespace(cell, i) ==
    IF i <= Len(cell) /\ cell[i] \in Whitespace THEN SkipWhitespace(cell, i + 1) ELSE i

CleanCell(cell) ==
    LET stripped == StripTags(cell)
    IN  CollapseFrom(stripped, SkipWhitespace(stripped, 1), FALSE)

\* Lines 57-65: the cells of one row span.
RowData(row_html) ==
    LET cell_matches == FindSpans(row_html, 1, CellOpen, CellClose)
    IN  [k \in 1..Len(cell_matches) |-> CleanCell(cell_matches[k])]

\* A row test that keeps every row.
KeepRowAlways(row_data) == TRUE

\* Line 67: if row_data.
KeepRow(row_data) == row_data # <<>>

PadRow(row, width, filler) ==
    [k \in 1..width |-> IF k <= Len(row) THEN row[k] ELSE filler]

Width(rows) == Max({Len(rows[k]) : k \in 1..Len(rows)})

\* Lines 51-76: the rows of one table span, padded with '' to its widest row.
TableRows(table_html) ==
    LET row_matches == FindSpans(table_html, 1, RowOpen, RowClose)
        all_rows == [k \in 1..Len(row_matches) |-> RowData(row_matches[k])]
        rows == SelectSeq(all_rows, KeepRow)
    IN  [k \in 1..Len(rows) |-> PadRow(rows[k], Width(rows), "")]

\* pd.concat(all_tables, ignore_index=True): the rows in order, over the union
\* of the column labels; a column a frame does not have is filled with NaN.
Concat(all_tables) ==
    LET rows == Flatten(all_tables)
    IN  [k \in 1..Len(rows) |-> PadRow(rows[k], Width(rows), NaN)]

simple_html_table_to_df(markup) ==
    LET table_matches == FindSpans(Unescape(markup), 1, TableOpen, TableClose)
        tables == [k \in 1..Len(table_matches) |-> TableRows(table_matches[k])]
        all_tables == SelectSeq(tables, LAMBDA rows : rows # <<>>)
    IN  IF all_tables # <<>> THEN Df(Concat(all_tables)) ELSE NoneDf

(***************************************************************************)
(* The markup the extractor is run on.  A document is a sequence of items: *)
(* a row with that many cells, or (a negative item) the end of one table   *)
(* and the start of the next.  It is rendered with its tables closed, with *)
(* its last table left unclosed, or without any table tag.  The text of a  *)
(* cell depends on where it is.                                            *)
(***************************************************************************)
Modes == {"tables", "unclosed", "no_tables"}

IsBreak(item) == item < 0

CellForms ==
    << <<"x">>,
       <<>>,
       <<" ", "<b>", "x", "\n", "\t", "&amp;", "</b>", " ">> >>

\* What each form reads as once cleaned.
CleanForms == <<"x", "", "x &">>

FormOf(n, j) == ((n + j) % 3) + 1

RenderCell(n, j) ==
    IF j % 2 = 1
    THEN <<"<td>">> \o CellForms[FormOf(n, j)] \o <<"</td>">>
    ELSE <<"<th>">> \o CellForms[FormOf(n, j)] \o <<"</th>", " ">>

RenderItem(doc, n) ==
    IF IsBreak(doc.items[n])
    THEN IF doc.mode = "no_tables" THEN <<"y", "\n">>
         ELSE <<"</table>", "y", "\n", "<table>">>
    ELSE <<"<tr>">>
         \o (IF doc.items[n] = 0 THEN <<"x">>
             ELSE Flatten([j \in 1..doc.items[n] |-> RenderCell(n, j)]))
         \o <<"</tr>", "\n">>

Render(doc) ==
    (IF doc.mode = "no_tables" THEN <<"y">> ELSE <<"y", "<table>">>)
    \o Flatten([n \in 1..Len(doc.items) |-> RenderItem(doc, n)])
    \o (IF doc.mode = "tables" THEN <<"</table>">> ELSE <<>>)

Documents == [mode : Modes, items : SeqsUpTo((-1)..MaxCells, MaxItems)]

HtmlInit ==
    /\ html_doc \in Documents
    /\ html_content = Render(html_doc)
    /\ df_html = NoneDf
    /\ hpc = "start"
    /\ BatchIdle /\ TextIdle /\ EncIdle

\* Line 105: df = simple_html_table_to_df(html_content).
ExtractTables ==
    /\ hpc = "start"
    /\ df_html' = simple_html_table_to_df(html_content)
    /\ hpc' = "done"
    /\ UNCHANGED <<html_doc, html_content>>
    /\ UNCHANGED <<bvars, tvars, evars>>

HtmlNext == ExtractTables

HtmlSpec == HtmlInit /\ [][HtmlNext]_vars

(***************************************************************************)
(* The text path of convert_file, lines 111-134.  The text is a sequence   *)
(* of characters without quotes or carriage returns; a field is a string.  *)
(***************************************************************************)
SampleLines == 100

\* delimiter_counts, in the insertion order of the dict.
Delimiters == <<",", ";", "\t", "|">>

\* str.split(sep): one part more than there are separators.  The text is cut
\* at its middle separator and each half is split in turn.
RECURSIVE SplitOn(_, _)
SplitOn(s, sep) ==
    LET hits == {i \in 1..Len(s) : s[i] = sep}
    IN  IF hits = {} THEN <<s>>
        ELSE LET i == CHOOSE x \in hits :
                         Cardinality({y \in hits : y < x}) = Cardinality(hits) \div 2
             IN  SplitOn(SubSeq(s, 1, i - 1), sep) \o SplitOn(SubSeq(s, i + 1, Len(s)), sep)

\* A sample that takes the whole text.
SampleAll(lines) == lines

\* Line 117: content.split('\n')[:100]
Sample(lines) == SubSeq(lines, 1, Min2(Len(lines), SampleLines))

\* Lines 119-121: the total of one delimiter over the sample lines, as the
\* number of its occurrences (line, position).
TotalCount(lines, delim) ==
    Cardinality(UNION {{<<k, i>> : i \in {i \in 1..Len(lines[k]) : lines[k][i] = delim}} :
                          k \in 1..Len(lines)})

\* max(delimiter_counts, key=delimiter_counts.get): the first key, in the
\* dict's order, with the greatest count.
RECURSIVE FirstMax(_, _, _)
FirstMax(counts, k, best) ==
    IF k > Len(counts) THEN best
    ELSE FirstMax(counts, k + 1, IF counts[k] > counts[best] THEN k ELSE best)

\* Lines 116-124.
InferDelimiter(text) ==
    LET lines == Sample(SplitOn(text, "\n"))
        delimiter_counts == [k \in 1..Len(Delimiters) |-> TotalCount(lines, Delimiters[k])]
    IN  Delimiters[FirstMax(delimiter_counts, 2, 1)]

RECURSIVE JoinChars(_)
JoinChars(chars) == IF chars = <<>> THEN "" ELSE Head(chars) \o JoinChars(Tail(chars))

\* The fields of one line.
Fields(line, delim) ==
    LET parts == SplitOn(line, delim)
    IN  [k \in 1..Len(parts) |-> JoinChars(parts[k])]

\* An empty field is read as a missing value.
NaValue(field) == IF field = "" THEN NaN ELSE field

\* header=None: the first row sets the number of columns.
ExpectedWidth(rows) == Len(rows[1])

\* Lines 127-128: pd.read_csv(StringIO(content), delimiter=delimiter, header=None,
\* engine='python', on_bad_lines='skip').  Blank lines are skipped; a text
\* without rows raises EmptyDataError; a row with more fields than the first
\* row is a bad line and is skipped; a shorter row is filled with NaN.
read_csv(text, delim) ==
    LET lines == SelectSeq(SplitOn(text, "\n"), LAMBDA line : line # <<>>)
        rows == [k \in 1..Len(lines) |-> Fields(lines[k], delim)]
    IN  IF rows = <<>> THEN [raised |-> TRUE, df |-> NoneDf]
        ELSE LET width == ExpectedWidth(rows)
                 good == SelectSeq(rows, LAMBDA row : Len(row) <= width)
             IN  [raised |-> FALSE,
                  df |-> Df([k \in 1..Len(good) |->
                               [j \in 1..width |->
                                   IF j <= Len(good[k]) THEN NaValue(good[k][j])
                                   ELSE NaN]])]

(***************************************************************************)
(* The texts the text path is run on: every short text, the example of the *)
(* documentation, and texts whose last line falls just inside or just      *)
(* outside the sample.                                                     *)
(***************************************************************************)
TextChars == {"a", ",", ";", "\t", "|", "\n"}

ExampleText ==
    <<"a", ",", "b", ",", "c", "\n", "1", ",", "2", "\n", ",", ",", ",">>

EdgeLines == {<<>>, <<",">>, <<";", ";">>, <<"a", "\t">>, <<"|", ",", "|">>}

Newlines(n) == [i \in 1..n |-> "\n"]

LongTexts ==
    {first \o Newlines(n) \o final :
        first \in EdgeLines, final \in EdgeLines, n \in {SampleLines - 1, SampleLines}}

Texts == SeqsUpTo(TextChars, MaxTextLen) \cup {ExampleText} \cup LongTexts

TextInit ==
    /\ content \in Texts
    /\ delimiter = ""
    /\ df_text = NoneDf
    /\ tpc = "start"
    /\ BatchIdle /\ HtmlIdle /\ EncIdle

\* Lines 111-134: infer the delimiter, read the text; any exception ends the
\* call with the 'Text parsing failed' message.
ParseText ==
    /\ tpc = "start"
    /\ delimiter' = InferDelimiter(content)
    /\ LET r == read_csv(content, InferDelimiter(content))
       IN  /\ df_text' = r.df
           /\ tpc' = IF r.raised THEN "failed" ELSE "parsed"
    /\ UNCHANGED content
    /\ UNCHANGED <<bvars, hvars, evars>>

TextNext == ParseText

TextSpec == TextInit /\ [][TextNext]_vars

(***************************************************************************)
(* detect_encoding on its own.                                             *)
(***************************************************************************)
EncInit ==
    /\ det_in \in {d \in DetectInputs : ValidDetect(d)}
    /\ encoding = ""
    /\ epc = "start"
    /\ BatchIdle /\ HtmlIdle /\ TextIdle

\* Lines 20-28.
DetectEncoding ==
    /\ epc = "start"
    /\ encoding' = detect_encoding(det_in)
    /\ epc' = "done"
    /\ UNCHANGED det_in
    /\ UNCHANGED <<bvars, hvars, tvars>>

EncNext == DetectEncoding

EncSpec == EncInit /\ [][EncNext]_vars

(***************************************************************************)
(* The batch: main over a source folder.                                   *)
(***************************************************************************)
BatchInit ==
    /\ files \in Listings
    /\ output_format = ""
    /\ pc = "start"
    /\ idx = 1
    /\ processed_count = 0
    /\ error_count = 0
    /\ out_lines = <<>>
    /\ disk = <<>>
    /\ last = NoCall
    /\ HtmlIdle /\ TextIdle /\ EncIdle

BatchNext == ReadInputs \/ ProcessFile \/ Finish

BatchSpec == BatchInit /\ [][BatchNext]_vars

\* main runs on one thread and every call it makes returns: it keeps stepping.
FairBatchSpec == BatchSpec /\ WF_vars(BatchNext)

(***************************************************************************)
(* Claims about the batch and the orchestrator.                            *)
(***************************************************************************)
Outcomes == {"Success", "NoData", "Failure"}

OutputPathOf(filename) ==
    OutputPath(PathJoin(source_folder, filename),
               create_output_folder(source_folder), output_format)

CountKind(kinds) == Cardinality({i \in 1..Len(out_lines) : out_lines[i].kind \in kinds})

\* C1: in the two-stage (xlsb) export the temporary xlsx is removed on the
\* success path and on the failure path: whenever a convert_file call created
\* the temporary file, the file no longer exists once the call is over.
C1_TempRemoved ==
    (last.called /\ last.temp_created) => (last.temp_path \notin DOMAIN disk)

\* C2: convert_file is total: whatever step fails, the call ends with exactly
\* one outcome (Success, NoData or Failure) and raises nothing into main.
C2_ConvertFileTotal ==
    /\ pc # "crashed"
    /\ last.called => (~last.raised /\ last.kind \in Outcomes)
    /\ pc \in {"loop", "done"} => Len(out_lines) = idx - 1

\* A failure of the xlsb re-save (or of the removal after it) came back as a
\* Failure outcome.
C2_Witness ==
    /\ last.called
    /\ last.temp_created
    /\ last.kind = "Failure"
    /\ pc = "loop"

Converted == {i \in 1..Len(out_lines) : out_lines[i].kind = "Success"}

\* C3: the distinct input files converted so far were given distinct output
\* paths, so the output written for one file is not overwritten by another:
\* each still finds its own output at its path.
C3_UniqueOutputPaths ==
    pc \in {"loop", "done"} =>
        /\ \A i, j \in Converted :
              i # j => OutputPathOf(out_lines[i].file) # OutputPathOf(out_lines[j].file)
        /\ \A i \in Converted :
              disk[OutputPathOf(out_lines[i].file)] = out_lines[i].file

\* C4: when main finishes, processed_count is the number of files whose
\* outcome was Success and error_count the number whose outcome was NoData or
\* Failure.
C4_CountsMatchOutcomes ==
    pc = "done" =>
        /\ processed_count = CountKind({"Success"})
        /\ error_count = CountKind({"NoData", "Failure"})

AllFilesReported ==
    /\ Len(out_lines) = Len(files)
    /\ \A i \in 1..Len(files) : out_lines[i].file = files[i]
    /\ processed_count + error_count = Len(files)

\* C5: once the loop has started the batch reaches completion, with exactly
\* one outcome line per file, in listing order, and processed_count +
\* error_count equal to the number of files; a Failure or NoData outcome does
\* not stop the files after it from being processed.
C5_BatchCompletes ==
    (pc = "loop") ~> (pc = "done" /\ AllFilesReported)

\* The batch is complete although its first file was not converted, and the
\* file after it was.
C5_Witness ==
    /\ pc = "done"
    /\ Len(files) >= 2
    /\ Len(out_lines) = Len(files)
    /\ out_lines[1].kind = "Failure"
    /\ out_lines[2].kind = "Success"

(***************************************************************************)
(* Claims about the markup extractor.                                      *)
(***************************************************************************)
\* The items that lie inside a table span: all of them when every table is
\* closed, those before the last boundary when the last table is not, none
\* when the document has no table tag.
InTableSpan(n) ==
    CASE html_doc.mode = "tables" -> TRUE
      [] html_doc.mode = "unclosed" ->
            \E m \in (n + 1)..Len(html_doc.items) : IsBreak(html_doc.items[m])
      [] OTHER -> FALSE

\* The rows with at least one cell that lie inside a table span, in order.
KeptItems ==
    SelectSeq([n \in 1..Len(html_doc.items) |-> n],
              LAMBDA n : html_doc.items[n] >= 1 /\ InTableSpan(n))

CellsOf(k) == html_doc.items[KeptItems[k]]

ExpectedRow(n) == [j \in 1..html_doc.items[n] |-> CleanForms[FormOf(n, j)]]

WidestRow == Max({CellsOf(k) : k \in 1..Len(KeptItems)})

\* C6: the combined table is rectangular, its column count is the largest
\* width of any kept table, and every cell added as padding, within a table
\* or at the concatenation of tables of different widths, is the empty string.
C6_PaddingIsEmptyString ==
    (hpc = "done" /\ KeptItems # <<>>) =>
        /\ ~df_html.is_none
        /\ Len(df_html.rows) = Len(KeptItems)
        /\ \A k \in 1..Len(KeptItems) :
              /\ Len(df_html.rows[k]) = WidestRow
              /\ \A j \in (CellsOf(k) + 1)..WidestRow : df_html.rows[k][j] = ""

\* C10: the extractor returns None exactly when no table span yields a row
\* with at least one cell; otherwise the combined table holds, table by table
\* in document order, exactly the rows that have at least one cell, and a row
\* without cells is never emitted.
C10_RowsWithCellsKept ==
    hpc = "done" =>
        IF KeptItems = <<>>
        THEN df_html = NoneDf
        ELSE /\ ~df_html.is_none
             /\ Len(df_html.rows) = Len(KeptItems)
             /\ \A k \in 1..Len(KeptItems) :
                   /\ Len(df_html.rows[k]) >= CellsOf(k)
                   /\ SubSeq(df_html.rows[k], 1, CellsOf(k))
                          = ExpectedRow(KeptItems[k])

\* A document with a row without cells before a row with cells, and a table
\* without rows, was extracted.
C10_Witness ==
    /\ hpc = "done"
    /\ ~df_html.is_none
    /\ html_doc.mode = "tables"
    /\ \E m, n \in 1..Len(html_doc.items) :
          m < n /\ html_doc.items[m] = 0 /\ html_doc.items[n] >= 1
    /\ \E m \in 1..(Len(html_doc.items) - 1) :
          IsBreak(html_doc.items[m]) /\ IsBreak(html_doc.items[m + 1])

(***************************************************************************)
(* Claims about the text path.                                             *)
(***************************************************************************)
\* The rows of the text under the chosen delimiter, one per non-blank line.
ClaimedRows ==
    LET lines == SelectSeq(SplitOn(content, "\n"), LAMBDA line : line # <<>>)
    IN  [k \in 1..Len(lines) |-> Fields(lines[k], delimiter)]

ExampleTable ==
    << <<"a", "b", "c", "">>, <<"1", "2", "", "">>, <<"", "", "", "">> >>

\* Cell by cell, with an empty cell allowed to be '' or the missing value.
SameCells(table, claimed) ==
    /\ Len(table) = Len(claimed)
    /\ \A k \in 1..Len(claimed) :
          /\ Len(table[k]) = Len(claimed[k])
          /\ \A j \in 1..Len(claimed[k]) :
                table[k][j] = claimed[k][j] \/ (claimed[k][j] = "" /\ table[k][j] = NaN)

\* C7: every row of the whole text is kept, whatever its width relative to
\* the first row, and all rows are padded with empty cells to the widest
\* row; "a,b,c\n1,2\n,,," gives the 3-row, 4-column table
\* [[a,b,c,''],[1,2,'',''],['','','','']].  (Stated with '' and the missing
\* value both read as an empty cell: the rows and the width are what fails.)
C7_AllRowsKeptAndPadded ==
    (tpc # "start" /\ ClaimedRows # <<>>) =>
        /\ tpc = "parsed"
        /\ SameCells(df_text.rows,
                     [k \in 1..Len(ClaimedRows) |->
                         PadRow(ClaimedRows[k], Width(ClaimedRows), "")])
        /\ (content = ExampleText) => SameCells(df_text.rows, ExampleTable)

CandidateOrder == <<",", ";", "\t", "|">>

\* Character i of the text lies in one of its first SampleLines lines.
InSample(i) == Cardinality({q \in 1..(i - 1) : content[q] = "\n"}) < SampleLines

SampleCount(d) == Cardinality({i \in 1..Len(content) : content[i] = d /\ InSample(i)})

WholeCount(d) == Cardinality({i \in 1..Len(content) : content[i] = d})

\* C8: the delimiter chosen has the greatest number of occurrences within the
\* first 100 lines of the text, the earliest of comma, semicolon, tab, pipe
\* winning a tie; so comma is chosen whenever it strictly outnumbers the other
\* three there, whatever follows line 100.
C8_DelimiterFromSample ==
    tpc # "start" =>
        /\ \E k \in 1..Len(CandidateOrder) :
              /\ delimiter = CandidateOrder[k]
              /\ \A j \in 1..Len(CandidateOrder) :
                    /\ SampleCount(CandidateOrder[j]) <= SampleCount(delimiter)
                    /\ j < k => SampleCount(CandidateOrder[j]) < SampleCount(delimiter)
        /\ (\A j \in 2..Len(CandidateOrder) :
               SampleCount(",") > SampleCount(CandidateOrder[j])) => delimiter = ","

\* Comma was chosen from the sample although semicolons outnumber commas in
\* the text as a whole, past line 100.
C8_Witness ==
    /\ tpc = "parsed"
    /\ delimiter = ","
    /\ WholeCount("\n") >= SampleLines
    /\ WholeCount(";") > WholeCount(",")
    /\ SampleCount(",") > SampleCount(";")

(***************************************************************************)
(* Claims about detect_encoding.                                           *)
(***************************************************************************)
\* C9 as stated: the label is never None; it is UTF-8 when the confidence is
\* below 0.7 or detection fails, and the detected label when the confidence is
\* 0.7 or higher.
C9_AsStated ==
    epc = "done" =>
        /\ encoding # None
        /\ (~det_in.io_ok \/ det_in.empty \/ det_in.confidence < Threshold)
               => encoding = "utf-8"
        /\ (det_in.io_ok /\ det_in.confidence >= Threshold) => encoding = det_in.enc

\* C9, amended: the label is never None; it is UTF-8 when the confidence is
\* 0.7 or lower or detection fails, and the detected label when the confidence
\* is higher than 0.7.
C9_DetectEncoding ==
    epc = "done" =>
        /\ encoding # None
        /\ (~det_in.io_ok \/ det_in.empty \/ det_in.confidence <= Threshold)
               => encoding = "utf-8"
        /\ (det_in.io_ok /\ det_in.confidence > Threshold) => encoding = det_in.enc

\* A detection with confidence exactly 0.7 was answered with UTF-8.
C9_Witness ==
    /\ epc = "done"
    /\ det_in.io_ok
    /\ det_in.confidence = Threshold
    /\ det_in.enc = "windows-1252"
    /\ encoding = "utf-8"

====
